---------------------------- MODULE Spec2Model ----------------------------
(***************************************************************************)
(* Model of the secp256r1 vault program (src/src/lib.rs).                   *)
(*                                                                         *)
(* The state is the ledger the program runs on: the balance (lamports) of  *)
(* every account, the ledger clock, and a record of the last instruction   *)
(* that was processed with its result.  One step processes one             *)
(* instruction through process_instruction, from the dispatcher to the     *)
(* value transfer, or advances the clock.                                  *)
(*                                                                         *)
(* Host primitives the program calls (address derivation, the system       *)
(* program's transfer, instruction introspection, the clock) are modelled  *)
(* at the place the program calls them.  Accounts are passed writable, as  *)
(* the transfers the program issues require.                               *)
(***************************************************************************)
EXTENDS Integers, Sequences, FiniteSets, TLC

VARIABLES lamports, now, last

vars == <<lamports, now, last>>

-----------------------------------------------------------------------------
(* Bounds of the model *)

\* the ledger clock runs from 0 to MaxTime
MaxTime == 1
\* bump seeds tried by find_program_address and offered in payloads:
\* the NumBumps highest values of a u8
NumBumps == 2
\* the low bytes of the amount that a Deposit payload may set
AmountBytes == 2

-----------------------------------------------------------------------------
(* Bytes *)

Rep(n, b) == [i \in 1..n |-> b]

Slice(s, from, to) == [i \in 1..(to - from) |-> s[from + i]]

RECURSIVE Concat(_)
Concat(ss) == IF ss = <<>> THEN <<>> ELSE Head(ss) \o Concat(Tail(ss))

\* u64::from_le_bytes
RECURSIVE u64_from_le_bytes(_)
u64_from_le_bytes(bs) ==
    IF bs = <<>> THEN 0 ELSE Head(bs) + 256 * u64_from_le_bytes(Tail(bs))

\* magnitude of a negative two's-complement number, minus one
RECURSIVE ComplementLE(_)
ComplementLE(bs) ==
    IF bs = <<>> THEN 0 ELSE (255 - Head(bs)) + 256 * ComplementLE(Tail(bs))

\* a variant that reads the bytes as unsigned: with the top bit set the value
\* is 2^63 or more, above every clock value (kept as MaxTime + 1)
i64_from_le_bytes_Unsigned(bs) ==
    IF bs[Len(bs)] >= 128 THEN MaxTime + 1
    ELSE u64_from_le_bytes(bs)

\* i64::from_le_bytes: two's complement, the sign in the top bit of byte 7
i64_from_le_bytes(bs) ==
    IF bs[Len(bs)] >= 128 THEN 0 - (ComplementLE(bs) + 1)
    ELSE u64_from_le_bytes(bs)

\* u64::to_le_bytes / i64::to_le_bytes of a small number (what a client sends)
RECURSIVE LEBytes(_, _)
LEBytes(v, n) == IF n = 0 THEN <<>> ELSE <<v % 256>> \o LEBytes(v \div 256, n - 1)

to_le_bytes(v) ==
    IF v >= 0 THEN LEBytes(v, 8)
    ELSE [i \in 1..8 |-> 255 - LEBytes(0 - v - 1, 8)[i]]


-----------------------------------------------------------------------------
(* Addresses and keys *)

\* lib.rs:25: the program's address (32 bytes; the model keeps its first and
\* last byte and fills the rest)
ID == <<15>> \o Rep(30, 1) \o <<247>>

\* pinocchio_system::ID: the system program's address is 32 zero bytes
SYSTEM_ID == Rep(32, 0)

\* addresses of the instructions sysvar, of the secp256r1 precompile and of
\* some other program
INSTRUCTIONS_ID == Rep(32, 6)
SECP256R1_PROGRAM_ID == Rep(32, 8)
OTHER_PROGRAM_ID == Rep(32, 9)

\* size_of::<Secp256r1Pubkey>(): a compressed key, prefix byte then x
Secp256r1PubkeyLen == 33

\* two authorizing keys on the same x coordinate, differing in the prefix
KeyA == <<2>> \o Rep(32, 7)
KeyB == <<3>> \o Rep(32, 7)
Secp256r1Keys == {KeyA, KeyB}

\* b"vault"
VaultSeed == <<118, 97, 117, 108, 116>>

\* u8::MAX, where find_program_address starts
MaxBump == 255
BumpSeeds == (MaxBump + 1 - NumBumps)..MaxBump

\* The derivation hash is collision free: the model keeps its input.
Hash(seeds, program_id) == Concat(seeds) \o program_id

\* Whether a hash is a point of the ed25519 curve is fixed per hash; in the
\* model, KeyB's hash with the highest bump is, every other one is not.
OnCurve(h) ==
    h = Hash(<<VaultSeed, Slice(KeyB, 0, 1), Slice(KeyB, 1, 33), <<MaxBump>>>>, ID)

NoAddress == <<>>

\* create_program_address: the hash of the seeds, unless it is on the curve
create_program_address(seeds, program_id) ==
    LET h == Hash(seeds, program_id) IN IF OnCurve(h) THEN NoAddress ELSE h

\* find_program_address: the first bump, from u8::MAX down, with a valid address
RECURSIVE try_find_program_address(_, _, _)
try_find_program_address(seeds, program_id, bump) ==
    IF bump \notin BumpSeeds THEN <<NoAddress, 0>>
    ELSE LET address == create_program_address(Append(seeds, <<bump>>), program_id)
         IN  IF address # NoAddress THEN <<address, bump>>
             ELSE try_find_program_address(seeds, program_id, bump - 1)

find_program_address(seeds, program_id) ==
    try_find_program_address(seeds, program_id, MaxBump)

-----------------------------------------------------------------------------
(* The ledger's accounts *)

Wallets == {"payer1", "payer2"}
\* vault1 and vault2 are the addresses find_program_address gives KeyA and
\* KeyB; vault1b is KeyA's address under the next lower bump
Vaults == {"vault1", "vault1b", "vault2"}
Accounts == Wallets \cup Vaults \cup {"other", "instructions", "system_program"}

VaultSeeds(key) == <<VaultSeed, Slice(key, 0, 1), Slice(key, 1, 33)>>

Key ==
    [a \in Accounts |->
        CASE a = "payer1" -> Rep(32, 17)
          [] a = "payer2" -> Rep(32, 34)
          [] a = "vault1" -> find_program_address(VaultSeeds(KeyA), ID)[1]
          [] a = "vault1b" ->
                create_program_address(Append(VaultSeeds(KeyA), <<MaxBump - 1>>), ID)
          [] a = "vault2" -> find_program_address(VaultSeeds(KeyB), ID)[1]
          [] a = "other" -> Rep(32, 51)
          [] a = "instructions" -> INSTRUCTIONS_ID
          [] a = "system_program" -> SYSTEM_ID]

Owner ==
    [a \in Accounts |->
        CASE a \in Wallets \cup Vaults -> SYSTEM_ID
          [] a = "other" -> OTHER_PROGRAM_ID
          [] a = "instructions" -> Rep(32, 5)
          [] a = "system_program" -> Rep(32, 4)]

\* an AccountInfo as the runtime hands it to the program
AccountInfo(a, signer) == [acct |-> a, is_signer |-> signer]

-----------------------------------------------------------------------------
(* The system program's transfer, invoked across programs *)

Outcome(r, l) == [result |-> r, lamports |-> l]

\* Transfer { from, to, lamports }.invoke_signed(signers): the runtime derives
\* an address from each signer's seeds under the calling program's id; `from`
\* must have signed the transaction or be one of these addresses; the system
\* program then moves the amount if `from` holds it.
Transfer_invoke_signed(from, to, amount, signers, lam) ==
    LET derived == [i \in 1..Len(signers) |-> create_program_address(signers[i], ID)]
    IN  IF \E i \in 1..Len(signers) : derived[i] = NoAddress
        THEN Outcome("BadSeeds", lam)
        ELSE IF ~from.is_signer /\ \A i \in 1..Len(signers) : derived[i] # Key[from.acct]
        THEN Outcome("PrivilegeEscalation", lam)
        ELSE IF lam[from.acct] < amount
        THEN Outcome("Custom(1)", lam)
        ELSE Outcome("Ok", [[lam EXCEPT ![from.acct] = @ - amount]
                                 EXCEPT ![to.acct] = @ + amount])

Transfer_invoke(from, to, amount, lam) ==
    Transfer_invoke_signed(from, to, amount, <<>>, lam)

-----------------------------------------------------------------------------
(* Deposit *)

\* a Result: Ok with a value, or Err with a ProgramError
Ok(v) == [ok |-> TRUE, value |-> v]
Err(e) == [ok |-> FALSE, error |-> e]

\* a variant that accepts a vault that already holds value
DepositAccount_try_from_AnyBalance(accounts, lam) ==
    IF Len(accounts) # 3 THEN Err("NotEnoughAccountKeys")
    ELSE IF ~accounts[1].is_signer THEN Err("InvalidAccountOwner")
    ELSE IF Owner[accounts[2].acct] # SYSTEM_ID THEN Err("InvalidAccountOwner")
    ELSE Ok([payer |-> accounts[1], vault |-> accounts[2]])

\* DepositAccount::try_from
DepositAccount_try_from(accounts, lam) ==
    IF Len(accounts) # 3 THEN Err("NotEnoughAccountKeys")
    ELSE IF ~accounts[1].is_signer THEN Err("InvalidAccountOwner")
    ELSE IF Owner[accounts[2].acct] # SYSTEM_ID THEN Err("InvalidAccountOwner")
    ELSE IF lam[accounts[2].acct] # 0 THEN Err("InvalidAccountData")
    ELSE Ok([payer |-> accounts[1], vault |-> accounts[2]])

\* size_of::<DepositInstructionData>(): packed, a 33-byte key and a u64
DepositInstructionDataLen == Secp256r1PubkeyLen + 8

\* a variant that splits the payload one byte early
DepositInstructionData_try_from_SplitEarly(data) ==
    IF Len(data) # DepositInstructionDataLen THEN Err("InvalidInstructionData")
    ELSE Ok([pubkey |-> Slice(data, 0, Secp256r1PubkeyLen),
             amount |-> u64_from_le_bytes(Slice(data, Secp256r1PubkeyLen - 1,
                                                Len(data) - 1))])

\* a variant that takes the first 41 bytes of a longer payload
DepositInstructionData_try_from_AtLeast(data) ==
    IF Len(data) < DepositInstructionDataLen THEN Err("InvalidInstructionData")
    ELSE Ok([pubkey |-> Slice(data, 0, Secp256r1PubkeyLen),
             amount |-> u64_from_le_bytes(Slice(data, Secp256r1PubkeyLen,
                                                DepositInstructionDataLen))])

\* DepositInstructionData::try_from
DepositInstructionData_try_from(data) ==
    IF Len(data) # DepositInstructionDataLen THEN Err("InvalidInstructionData")
    ELSE Ok([pubkey |-> Slice(data, 0, Secp256r1PubkeyLen),
             amount |-> u64_from_le_bytes(Slice(data, Secp256r1PubkeyLen, Len(data)))])

\* Deposit::try_from: the accounts first, then the payload
Deposit_try_from(data, accounts, lam) ==
    LET accts == DepositAccount_try_from(accounts, lam)
        instruction_data == DepositInstructionData_try_from(data)
    IN  IF ~accts.ok THEN accts
        ELSE IF ~instruction_data.ok THEN instruction_data
        ELSE Ok([accounts |-> accts.value, instruction_data |-> instruction_data.value])

\* the seeds Deposit::process derives the vault address from
DepositSeeds(pubkey) == <<VaultSeed, Slice(pubkey, 0, 1), Slice(pubkey, 1, 33)>>

\* a variant that does not compare the vault with the derived address
Deposit_process_AnyVault(self, lam) ==
    Transfer_invoke(self.accounts.payer, self.accounts.vault,
                    self.instruction_data.amount, lam)

\* a variant that issues the transfer before it compares the addresses
Deposit_process_TransferFirst(self, lam) ==
    LET vault_key == find_program_address(DepositSeeds(self.instruction_data.pubkey), ID)[1]
        out == Transfer_invoke(self.accounts.payer, self.accounts.vault,
                               self.instruction_data.amount, lam)
    IN  IF out.result # "Ok" THEN out
        ELSE IF vault_key # Key[self.accounts.vault.acct]
        THEN Outcome("InvalidAccountOwner", out.lamports)
        ELSE out

\* Deposit::process
Deposit_process(self, lam) ==
    LET vault_key == find_program_address(DepositSeeds(self.instruction_data.pubkey), ID)[1]
    IN  IF vault_key # Key[self.accounts.vault.acct]
        THEN Outcome("InvalidAccountOwner", lam)
        ELSE Transfer_invoke(self.accounts.payer, self.accounts.vault,
                             self.instruction_data.amount, lam)

-----------------------------------------------------------------------------
(* Withdraw *)

\* a variant that accepts accounts after the fourth
WithdrawAccounts_try_from_AtLeast(accounts, lam) ==
    IF Len(accounts) < 4 THEN Err("NotEnoughAccountKeys")
    ELSE IF ~accounts[1].is_signer THEN Err("InvalidAccountOwner")
    ELSE IF Owner[accounts[2].acct] # SYSTEM_ID THEN Err("InvalidAccountOwner")
    ELSE IF lam[accounts[2].acct] = 0 THEN Err("InvalidAccountData")
    ELSE Ok([payer |-> accounts[1], vault |-> accounts[2],
             instructions |-> accounts[3]])

\* a variant that accepts an empty vault
WithdrawAccounts_try_from_AnyBalance(accounts, lam) ==
    IF Len(accounts) # 4 THEN Err("NotEnoughAccountKeys")
    ELSE IF ~accounts[1].is_signer THEN Err("InvalidAccountOwner")
    ELSE IF Owner[accounts[2].acct] # SYSTEM_ID THEN Err("InvalidAccountOwner")
    ELSE Ok([payer |-> accounts[1], vault |-> accounts[2],
             instructions |-> accounts[3]])

\* WithdrawAccounts::try_from
WithdrawAccounts_try_from(accounts, lam) ==
    IF Len(accounts) # 4 THEN Err("NotEnoughAccountKeys")
    ELSE IF ~accounts[1].is_signer THEN Err("InvalidAccountOwner")
    ELSE IF Owner[accounts[2].acct] # SYSTEM_ID THEN Err("InvalidAccountOwner")
    ELSE IF lam[accounts[2].acct] = 0 THEN Err("InvalidAccountData")
    ELSE Ok([payer |-> accounts[1], vault |-> accounts[2],
             instructions |-> accounts[3]])

\* WithdrawInstructionData::try_from: the first byte, whatever follows it
WithdrawInstructionData_try_from(data) ==
    IF data = <<>> THEN Err("InvalidAccountData")
    ELSE Ok([bump |-> <<data[1]>>])

\* Withdraw::try_from: the accounts first, then the payload
Withdraw_try_from(data, accounts, lam) ==
    LET accts == WithdrawAccounts_try_from(accounts, lam)
        instruction_data == WithdrawInstructionData_try_from(data)
    IN  IF ~accts.ok THEN accts
        ELSE IF ~instruction_data.ok THEN instruction_data
        ELSE Ok([accounts |-> accts.value, instruction_data |-> instruction_data.value])

\* the transaction holds no instruction after the current one
NoInstruction ==
    [program_id |-> <<>>, num_signatures |-> 0, signers |-> <<>>, messages |-> <<>>]

\* Instructions::try_from and get_instruction_relative(1): the account must be
\* the instructions sysvar, and the transaction must hold a next instruction
get_instruction_relative(instructions, sibling) ==
    IF Key[instructions.acct] # INSTRUCTIONS_ID THEN Err("UnsupportedSysvar")
    ELSE IF sibling = NoInstruction THEN Err("InvalidInstructionData")
    ELSE Ok(sibling)

\* Secp256r1Instruction::try_from: an instruction of the secp256r1 precompile
Secp256r1Instruction_try_from(ix) ==
    IF ix.program_id # SECP256R1_PROGRAM_ID THEN Err("IncorrectProgramId")
    ELSE Ok(ix)

\* split_at_checked(32) of the signed message
split_at_checked(message, mid) ==
    IF Len(message) < mid THEN Err("InvalidInstructionData")
    ELSE Ok(<<Slice(message, 0, mid), Slice(message, mid, Len(message))>>)

\* expiry.try_into(): a slice becomes [u8; 8] only when it has 8 bytes
expiry_try_into(expiry) ==
    IF Len(expiry) # 8 THEN Err("InvalidInstructionData") ELSE Ok(expiry)

\* a variant that passes the highest bump, not the payload's
WithdrawSeeds_FixedBump(signer, bump) ==
    <<VaultSeed, Slice(signer, 0, 1), Slice(signer, 1, Len(signer)), <<MaxBump>>>>

\* the signer seeds Withdraw::process passes with the transfer
WithdrawSeeds(signer, bump) ==
    <<VaultSeed, Slice(signer, 0, 1), Slice(signer, 1, Len(signer)), bump>>

\* a variant that credits the payer and leaves the vault as it is
Withdraw_transfer_CreditOnly(self, signer, lam) ==
    Outcome("Ok", [lam EXCEPT ![self.accounts.payer.acct] =
                                   @ + lam[self.accounts.vault.acct]])

\* a variant that names the instructions account as the receiver
Withdraw_transfer_ToInstructions(self, signer, lam) ==
    Transfer_invoke_signed(self.accounts.vault, self.accounts.instructions,
                           lam[self.accounts.vault.acct],
                           <<WithdrawSeeds(signer, self.instruction_data.bump)>>, lam)

\* the transfer Withdraw::process ends with: the whole balance of the vault
Withdraw_transfer(self, signer, lam) ==
    Transfer_invoke_signed(self.accounts.vault, self.accounts.payer,
                           lam[self.accounts.vault.acct],
                           <<WithdrawSeeds(signer, self.instruction_data.bump)>>, lam)

\* a variant that rejects a signature at the second it expires
Withdraw_check_expiry_Early(self, signer, expiry, clock, lam) ==
    IF ~expiry_try_into(expiry).ok
    THEN Outcome(expiry_try_into(expiry).error, lam)
    ELSE IF clock >= i64_from_le_bytes(expiry)
    THEN Outcome("InvalidInstructionData", lam)
    ELSE Withdraw_transfer(self, signer, lam)

\* a variant that never looks at the clock
Withdraw_check_expiry_Never(self, signer, expiry, clock, lam) ==
    IF ~expiry_try_into(expiry).ok
    THEN Outcome(expiry_try_into(expiry).error, lam)
    ELSE Withdraw_transfer(self, signer, lam)

\* the expiry check of Withdraw::process, then the transfer
Withdraw_check_expiry(self, signer, expiry, clock, lam) ==
    IF ~expiry_try_into(expiry).ok
    THEN Outcome(expiry_try_into(expiry).error, lam)
    ELSE IF clock > i64_from_le_bytes(expiry)
    THEN Outcome("InvalidInstructionData", lam)
    ELSE Withdraw_transfer(self, signer, lam)

\* a variant that does not compare the payer with the signed message
Withdraw_check_signature_AnyPayer(self, secp256r1_ix, clock, lam) ==
    IF secp256r1_ix.num_signatures # 1
    THEN Outcome("InvalidInstructionData", lam)
    ELSE LET signer == secp256r1_ix.signers[1]
             split == split_at_checked(secp256r1_ix.messages[1], 32)
         IN  IF ~split.ok THEN Outcome("InvalidInstructionData", lam)
             ELSE Withdraw_check_expiry(self, signer, split.value[2], clock, lam)

\* a variant that accepts any positive number of signatures
Withdraw_check_signature_AnyCount(self, secp256r1_ix, clock, lam) ==
    IF secp256r1_ix.num_signatures < 1
    THEN Outcome("InvalidInstructionData", lam)
    ELSE LET signer == secp256r1_ix.signers[1]
             split == split_at_checked(secp256r1_ix.messages[1], 32)
         IN  IF ~split.ok THEN Outcome("InvalidInstructionData", lam)
             ELSE IF Key[self.accounts.payer.acct] # split.value[1]
             THEN Outcome("InvalidAccountOwner", lam)
             ELSE Withdraw_check_expiry(self, signer, split.value[2], clock, lam)

\* the checks of Withdraw::process on the secp256r1 instruction
Withdraw_check_signature(self, secp256r1_ix, clock, lam) ==
    IF secp256r1_ix.num_signatures # 1
    THEN Outcome("InvalidInstructionData", lam)
    ELSE LET signer == secp256r1_ix.signers[1]
             split == split_at_checked(secp256r1_ix.messages[1], 32)
         IN  IF ~split.ok THEN Outcome("InvalidInstructionData", lam)
             ELSE IF Key[self.accounts.payer.acct] # split.value[1]
             THEN Outcome("InvalidAccountOwner", lam)
             ELSE Withdraw_check_expiry(self, signer, split.value[2], clock, lam)

\* Withdraw::process
Withdraw_process(self, sibling, clock, lam) ==
    LET ix == get_instruction_relative(self.accounts.instructions, sibling)
    IN  IF ~ix.ok THEN Outcome(ix.error, lam)
        ELSE LET secp256r1_ix == Secp256r1Instruction_try_from(ix.value)
             IN  IF ~secp256r1_ix.ok THEN Outcome(secp256r1_ix.error, lam)
                 ELSE Withdraw_check_signature(self, secp256r1_ix.value, clock, lam)

-----------------------------------------------------------------------------
(* The dispatcher *)

Deposit_DISCRIMINATOR == 0
Withdraw_DISCRIMINATOR == 1

\* a variant that accepts an instruction without bytes as a no-op
process_instruction_EmptyOk(accounts, instruction_data, sibling, clock, lam) ==
    IF instruction_data = <<>> THEN Outcome("Ok", lam)
    ELSE IF Head(instruction_data) = Deposit_DISCRIMINATOR
    THEN LET deposit == Deposit_try_from(Tail(instruction_data), accounts, lam)
         IN  IF deposit.ok THEN Deposit_process(deposit.value, lam)
             ELSE Outcome(deposit.error, lam)
    ELSE IF Head(instruction_data) = Withdraw_DISCRIMINATOR
    THEN LET withdraw == Withdraw_try_from(Tail(instruction_data), accounts, lam)
         IN  IF withdraw.ok THEN Withdraw_process(withdraw.value, sibling, clock, lam)
             ELSE Outcome(withdraw.error, lam)
    ELSE Outcome("InvalidAccountData", lam)

\* a variant whose last arm is Deposit: every first byte but Withdraw's
\* routes to it
process_instruction_Fallthrough(accounts, instruction_data, sibling, clock, lam) ==
    IF instruction_data = <<>> THEN Outcome("InvalidAccountData", lam)
    ELSE IF Head(instruction_data) = Withdraw_DISCRIMINATOR
    THEN LET withdraw == Withdraw_try_from(Tail(instruction_data), accounts, lam)
         IN  IF withdraw.ok THEN Withdraw_process(withdraw.value, sibling, clock, lam)
             ELSE Outcome(withdraw.error, lam)
    ELSE LET deposit == Deposit_try_from(Tail(instruction_data), accounts, lam)
         IN  IF deposit.ok THEN Deposit_process(deposit.value, lam)
             ELSE Outcome(deposit.error, lam)

\* process_instruction
process_instruction(accounts, instruction_data, sibling, clock, lam) ==
    IF instruction_data # <<>> /\ Head(instruction_data) = Deposit_DISCRIMINATOR
    THEN LET deposit == Deposit_try_from(Tail(instruction_data), accounts, lam)
         IN  IF deposit.ok THEN Deposit_process(deposit.value, lam)
             ELSE Outcome(deposit.error, lam)
    ELSE IF instruction_data # <<>> /\ Head(instruction_data) = Withdraw_DISCRIMINATOR
    THEN LET withdraw == Withdraw_try_from(Tail(instruction_data), accounts, lam)
         IN  IF withdraw.ok THEN Withdraw_process(withdraw.value, sibling, clock, lam)
             ELSE Outcome(withdraw.error, lam)
    ELSE Outcome("InvalidAccountData", lam)

-----------------------------------------------------------------------------
(* Requests a client can send.  A request is described by its fields; the  *)
(* accounts, the instruction bytes and the next instruction of the          *)
(* transaction are built from them.                                         *)

\* amounts a payload asks for: nothing, or a one in one of the low bytes
RECURSIVE Pow256(_)
Pow256(i) == IF i = 0 THEN 1 ELSE 256 * Pow256(i - 1)

Amounts == {0} \cup {Pow256(i) : i \in 0..(AmountBytes - 1)}
\* expiry times a message is signed with: one before every clock value, one
\* the clock starts at and passes, one it ends at
Expiries == {-1, 0, MaxTime}

\* a Deposit request
DepositRequest(payer, signed, vault, naccounts, key, amount, payload) ==
    [payer |-> payer, signed |-> signed, vault |-> vault, naccounts |-> naccounts,
     key |-> key, amount |-> amount, payload |-> payload]

\* well-formed Deposit requests: a signing wallet, a vault, three accounts and
\* a 41-byte payload; the key need not be the vault's, nor the amount covered
DepositWellFormed ==
    {DepositRequest(p, TRUE, v, 3, k, a, "exact") :
        p \in Wallets, v \in Vaults, k \in Secp256r1Keys, a \in Amounts}

\* the faults of a request: in its accounts, and elsewhere
DepositAccountFaults(r) ==
    (IF r.signed THEN 0 ELSE 1) + (IF r.vault = "vault1" THEN 0 ELSE 1)
    + (IF r.naccounts = 3 THEN 0 ELSE 1)

DepositOtherFaults(r) == IF r.payload = "exact" THEN 0 ELSE 1

\* malformed ones: payer1's deposit of 1 with KeyA, with one fault, or with a
\* fault in the accounts and a second fault anywhere
DepositMalformed ==
    {r \in {DepositRequest("payer1", s, v, n, KeyA, 1, l) :
                s \in BOOLEAN, v \in {"vault1", "other"}, n \in 2..4,
                l \in {"exact", "short", "long"}} :
        \/ DepositAccountFaults(r) + DepositOtherFaults(r) = 1
        \/ DepositAccountFaults(r) + DepositOtherFaults(r) = 2
              /\ DepositAccountFaults(r) >= 1}

DepositPayload(r) ==
    CASE r.payload = "exact" -> r.key \o to_le_bytes(r.amount)
      [] r.payload = "short" -> r.key \o Slice(to_le_bytes(r.amount), 0, 7)
      [] r.payload = "long" -> r.key \o to_le_bytes(r.amount) \o <<0>>

DepositTx(r) ==
    [accounts |-> SubSeq(<<AccountInfo(r.payer, r.signed), AccountInfo(r.vault, FALSE),
                           AccountInfo("system_program", FALSE),
                           AccountInfo("other", FALSE)>>, 1, r.naccounts),
     data |-> <<Deposit_DISCRIMINATOR>> \o DepositPayload(r),
     sibling |-> NoInstruction]

\* a Withdraw request, with the secp256r1 instruction that follows it
WithdrawRequest(payer, signed, vault, naccounts, payload, ixacct, sib, nsig, signer, claim, msg, expiry) ==
    [payer |-> payer, signed |-> signed, vault |-> vault, naccounts |-> naccounts,
     payload |-> payload, ixacct |-> ixacct, sib |-> sib, nsig |-> nsig,
     signer |-> signer, claim |-> claim, msg |-> msg, expiry |-> expiry]

\* well-formed Withdraw requests: payer1 signing, a vault, four accounts, a
\* one-byte payload, and a secp256r1 instruction with one signature over a
\* 40-byte message naming payer1; key, bump and expiry need not fit
WithdrawWellFormed ==
    {WithdrawRequest("payer1", TRUE, v, 4, <<b>>, "instructions", "secp256r1", 1, k,
                     "payer1", "exact", e) :
        v \in Vaults, b \in BumpSeeds, k \in Secp256r1Keys, e \in Expiries}

\* the faults of a request: those decided first (the signer flag, the number
\* of accounts, the number of signatures), and the others
WithdrawLeadingFaults(r) ==
    (IF r.signed THEN 0 ELSE 1) + (IF r.naccounts = 4 THEN 0 ELSE 1)
    + (IF r.nsig = 1 THEN 0 ELSE 1)

WithdrawOtherFaults(r) ==
    (IF r.vault = "vault1" THEN 0 ELSE 1) + (IF Len(r.payload) = 1 THEN 0 ELSE 1)
    + (IF r.ixacct = "instructions" THEN 0 ELSE 1)
    + (IF r.sib = "secp256r1" THEN 0 ELSE 1) + (IF r.signer = KeyA THEN 0 ELSE 1)
    + (IF r.msg = "exact" THEN 0 ELSE 1) + (IF r.claim = r.payer THEN 0 ELSE 1)
    + (IF r.expiry = MaxTime THEN 0 ELSE 1)

\* malformed ones: payer1's unexpired withdrawal from vault1 under KeyA with
\* one fault, or with a leading fault and a second fault anywhere; the vault
\* slot may hold a wallet that signed the transaction too
WithdrawMalformed ==
    {r \in {WithdrawRequest("payer1", s, v, n, d, x, sib, ns, k, c, m, e) :
                s \in BOOLEAN, v \in {"vault1", "other", "payer2"}, n \in 3..5,
                d \in {<<MaxBump>>, <<>>, <<MaxBump, 0>>},
                x \in {"instructions", "other"},
                sib \in {"secp256r1", "other", "none"}, ns \in 0..2,
                k \in Secp256r1Keys, c \in Wallets,
                m \in {"exact", "nopayer", "short", "long"}, e \in {-1, MaxTime}} :
        \/ WithdrawLeadingFaults(r) + WithdrawOtherFaults(r) = 1
        \/ WithdrawLeadingFaults(r) + WithdrawOtherFaults(r) = 2
              /\ WithdrawLeadingFaults(r) >= 1}

SignedMessage(r) ==
    CASE r.msg = "exact" -> Key[r.claim] \o to_le_bytes(r.expiry)
      [] r.msg = "nopayer" -> Slice(Key[r.claim], 0, 31)
      [] r.msg = "short" -> Key[r.claim] \o Slice(to_le_bytes(r.expiry), 0, 7)
      [] r.msg = "long" -> Key[r.claim] \o to_le_bytes(r.expiry) \o <<0>>

Sibling(r) ==
    CASE r.sib = "none" -> NoInstruction
      [] r.sib = "other" ->
            [program_id |-> OTHER_PROGRAM_ID, num_signatures |-> 0,
             signers |-> <<>>, messages |-> <<>>]
      [] r.sib = "secp256r1" ->
            [program_id |-> SECP256R1_PROGRAM_ID, num_signatures |-> r.nsig,
             signers |-> [i \in 1..r.nsig |-> r.signer],
             messages |-> [i \in 1..r.nsig |-> SignedMessage(r)]]

WithdrawTx(r) ==
    [accounts |-> SubSeq(<<AccountInfo(r.payer, r.signed),
                           AccountInfo(r.vault, r.vault \in Wallets),
                           AccountInfo(r.ixacct, FALSE),
                           AccountInfo("system_program", FALSE),
                           AccountInfo("other", FALSE)>>, 1, r.naccounts),
     data |-> <<Withdraw_DISCRIMINATOR>> \o r.payload,
     sibling |-> Sibling(r)]

\* instructions the dispatcher cannot route: no bytes at all, or a first byte
\* that is neither discriminator, carried by either request's accounts
UnroutableRequests ==
    {[data |-> d, naccounts |-> n] :
        d \in {<<>>, <<2>>, <<2>> \o KeyA \o to_le_bytes(1), <<255, MaxBump>>},
        n \in {0, 3}}

UnroutableTx(r) ==
    [accounts |-> SubSeq(<<AccountInfo("payer1", TRUE), AccountInfo("vault1", FALSE),
                           AccountInfo("instructions", FALSE),
                           AccountInfo("system_program", FALSE)>>, 1, r.naccounts),
     data |-> r.data,
     sibling |-> NoInstruction]

-----------------------------------------------------------------------------
(* The state machine *)

\* payer1 holds 257 lamports and payer2 one; vault1b holds one that a plain
\* transfer sent to it before the first step; vault1 and vault2 do not exist
\* yet.
InitBalance ==
    [a \in Accounts |->
        CASE a = "payer1" -> 257
          [] a \in {"vault1", "vault2"} -> 0
          [] OTHER -> 1]

NoRequest == [naccounts |-> 0]

Init ==
    /\ lamports = InitBalance
    /\ now = 0
    /\ last = [op |-> "None", req |-> NoRequest, result |-> "None",
               pre |-> InitBalance, time |-> 0]

\* the runtime runs one instruction of the program and keeps its effects
Execute(op, req, tx) ==
    LET out == process_instruction(tx.accounts, tx.data, tx.sibling, now, lamports)
    IN  /\ lamports' = out.lamports
        /\ last' = [op |-> op, req |-> req, result |-> out.result,
                    pre |-> lamports, time |-> now]
        /\ UNCHANGED now

DepositRequests == DepositWellFormed \cup DepositMalformed
WithdrawRequests == WithdrawWellFormed \cup WithdrawMalformed

\* the transactions of the requests, built once
DepositTxs == [r \in DepositRequests |-> DepositTx(r)]
WithdrawTxs == [r \in WithdrawRequests |-> WithdrawTx(r)]
UnroutableTxs == [r \in UnroutableRequests |-> UnroutableTx(r)]

Deposit == \E r \in DepositRequests : Execute("Deposit", r, DepositTxs[r])

Withdraw == \E r \in WithdrawRequests : Execute("Withdraw", r, WithdrawTxs[r])

Unroutable == \E r \in UnroutableRequests : Execute("Unroutable", r, UnroutableTxs[r])

\* the ledger clock advances
Tick ==
    /\ now < MaxTime
    /\ now' = now + 1
    /\ UNCHANGED <<lamports, last>>

Next == Deposit \/ Withdraw \/ Unroutable \/ Tick

Spec == Init /\ [][Next]_vars

-----------------------------------------------------------------------------
(* Properties.  They speak of the last instruction (last.op, last.req and  *)
(* last.result), of the balances before it (last.pre) and after it         *)
(* (lamports), and of the clock value it ran at (last.time).               *)

\* the address that the seeds ["vault", K[0:1], K[1:33], bump] derive
VaultAddress(K, bump) ==
    create_program_address(<<VaultSeed, <<K[1]>>, Slice(K, 1, 33), <<bump>>>>, ID)

\* the address Deposit ties to key K: the one of the first valid bump
DepositAddress(K) ==
    find_program_address(<<VaultSeed, <<K[1]>>, Slice(K, 1, 33)>>, ID)[1]

Unchanged == lamports = last.pre

\* the last instruction was a Withdraw that took value out of a vault
WithdrawDrained ==
    /\ last.op = "Withdraw"
    /\ last.req.naccounts >= 2
    /\ last.req.vault \in Vaults
    /\ lamports[last.req.vault] < last.pre[last.req.vault]

\* C1: a Withdraw that moves value out of a vault has, as its next
\* instruction, a secp256r1 instruction with exactly one signature, and the
\* signer key and the payload bump derive the address of the vault it was
\* given; so the vault of key K (where a Deposit with K puts value) is drained
\* only under signer K and a bump that reproduces its address.
C1_WithdrawOnlyUnderVaultSeeds ==
    WithdrawDrained =>
        /\ last.req.sib = "secp256r1"
        /\ last.req.nsig = 1
        /\ last.req.payload # <<>>
        /\ VaultAddress(last.req.signer, last.req.payload[1]) = Key[last.req.vault]
        /\ \A K \in Secp256r1Keys :
              Key[last.req.vault] = DepositAddress(K) =>
                 /\ last.req.signer = K
                 /\ VaultAddress(K, last.req.payload[1]) = DepositAddress(K)

\* C1 witness: KeyB's vault, whose bump is not the highest, has been drained
C1_Witness ==
    /\ WithdrawDrained
    /\ last.result = "Ok"
    /\ last.req.vault = "vault2"
    /\ lamports["vault2"] = 0

\* the conditions C2 lists for a Withdraw
WithdrawValid ==
    /\ last.op = "Withdraw"
    /\ last.req.naccounts = 4
    /\ last.req.ixacct = "instructions"
    /\ last.req.signed
    /\ Owner[last.req.vault] = SYSTEM_ID
    /\ last.pre[last.req.vault] > 0
    /\ last.req.sib = "secp256r1"
    /\ last.req.nsig = 1
    /\ last.req.msg = "exact"
    /\ last.req.claim = last.req.payer
    /\ last.time <= last.req.expiry
    /\ last.req.payload # <<>>
    /\ VaultAddress(last.req.signer, last.req.payload[1]) = Key[last.req.vault]

\* C2: a Withdraw with four accounts, a signing payer, a system-owned vault
\* holding B > 0, a next instruction of the secp256r1 precompile with one
\* signature over payer.address followed by expiry, now <= expiry, and seeds
\* that derive the vault address succeeds, leaves the vault at 0 and adds
\* exactly B to the payer.
C2_ValidWithdrawDrainsAll ==
    WithdrawValid =>
        /\ last.result = "Ok"
        /\ lamports[last.req.vault] = 0
        /\ lamports[last.req.payer] = last.pre[last.req.payer] + last.pre[last.req.vault]

\* C2 witness: a vault holding more than one lamport was withdrawn at the very
\* second its signature expires
C2_Witness ==
    /\ WithdrawValid
    /\ last.time = last.req.expiry
    /\ last.pre[last.req.vault] > 1
    /\ lamports[last.req.vault] = 0

\* the value of bytes read as a little-endian number
RECURSIVE LittleEndianValue(_, _)
LittleEndianValue(bytes, i) ==
    IF i > Len(bytes) THEN 0
    ELSE (IF bytes[i] = 0 THEN 0 ELSE bytes[i] * Pow256(i - 1))
         + LittleEndianValue(bytes, i + 1)

\* the amount in bytes 33..41 of the payload of the last Deposit
PayloadAmount ==
    LittleEndianValue(Slice(Tail(DepositTxs[last.req].data), 33, 41), 1)

\* the conditions C3 lists for a Deposit
DepositValid ==
    /\ last.op = "Deposit"
    /\ last.req.naccounts = 3
    /\ last.req.signed
    /\ Owner[last.req.vault] = SYSTEM_ID
    /\ last.pre[last.req.vault] = 0
    /\ last.req.payload = "exact"
    /\ Key[last.req.vault] = DepositAddress(last.req.key)

DepositMovedAmount ==
    /\ lamports[last.req.vault] = PayloadAmount
    /\ lamports[last.req.payer] = last.pre[last.req.payer] - PayloadAmount

\* C3 as stated: after every valid Deposit (three accounts, signing payer,
\* system-owned empty vault, 41-byte payload, vault address derived from the
\* key) the vault holds the amount A of payload bytes 33..41 and the payer
\* holds A less.
C3_Original == DepositValid => DepositMovedAmount

\* C3 as amended: the same for every valid Deposit whose payer holds at
\* least A, and such a Deposit succeeds.
C3_FundedDepositMovesAmount ==
    (DepositValid /\ last.pre[last.req.payer] >= PayloadAmount) =>
        (last.result = "Ok" /\ DepositMovedAmount)

\* C3 witness: a Deposit whose amount has its one in the second byte
C3_Witness ==
    /\ DepositValid
    /\ last.result = "Ok"
    /\ last.req.amount = 256
    /\ lamports[last.req.vault] = 256

\* the last instruction was a Deposit into an account that is not the one
\* derived from the key of its payload
DepositMismatch ==
    /\ last.op = "Deposit"
    /\ last.req.naccounts >= 2
    /\ last.req.payload = "exact"
    /\ Key[last.req.vault] # DepositAddress(last.req.key)

\* the account checks of a Deposit pass
DepositAccountsPass ==
    /\ last.req.naccounts = 3
    /\ last.req.signed
    /\ Owner[last.req.vault] = SYSTEM_ID
    /\ last.pre[last.req.vault] = 0

\* C4: a Deposit into an account whose address is not the one derived from
\* the payload key fails and moves no value, with InvalidAccountOwner when its
\* accounts are otherwise in order; a Deposit credits no account but the vault
\* address derived from its key.
C4_DepositOnlyToDerivedVault ==
    /\ DepositMismatch =>
          /\ last.result # "Ok"
          /\ Unchanged
          /\ DepositAccountsPass => last.result = "InvalidAccountOwner"
    /\ last.op = "Deposit" =>
          \A a \in Accounts :
             lamports[a] > last.pre[a] =>
                /\ last.req.naccounts >= 2
                /\ a = last.req.vault
                /\ last.req.payload = "exact"
                /\ Key[a] = DepositAddress(last.req.key)

\* C4 witness: a Deposit with KeyA into KeyA's address under the lower bump,
\* with everything else in order, was refused
C4_Witness ==
    /\ DepositMismatch
    /\ DepositAccountsPass
    /\ last.req.vault = "vault1b"
    /\ last.req.key = KeyA
    /\ last.pre[last.req.payer] >= last.req.amount
    /\ last.req.amount > 0
    /\ last.result = "InvalidAccountOwner"

\* every check of a Withdraw before the payer comparison passes
WithdrawReachesPayerCheck ==
    /\ last.req.naccounts = 4
    /\ last.req.signed
    /\ Owner[last.req.vault] = SYSTEM_ID
    /\ last.pre[last.req.vault] > 0
    /\ last.req.payload # <<>>
    /\ last.req.ixacct = "instructions"
    /\ last.req.sib = "secp256r1"
    /\ last.req.nsig = 1
    /\ last.req.msg # "nopayer"

\* the last instruction was a Withdraw whose signed message names, in its
\* first 32 bytes, another account than its payer
WithdrawPayerMismatch ==
    /\ last.op = "Withdraw"
    /\ last.req.sib = "secp256r1"
    /\ last.req.nsig >= 1
    /\ last.req.msg # "nopayer"
    /\ last.req.claim # last.req.payer

\* C5: a Withdraw whose signed message names another account than the payer
\* fails and moves no value, with InvalidAccountOwner when the checks before
\* the comparison pass; a successful Withdraw pays the account named in the
\* signed message.
C5_WithdrawPaysNamedPayer ==
    /\ WithdrawPayerMismatch =>
          /\ last.result # "Ok"
          /\ Unchanged
          /\ WithdrawReachesPayerCheck => last.result = "InvalidAccountOwner"
    /\ (last.op = "Withdraw" /\ last.result = "Ok") =>
          /\ last.req.claim = last.req.payer
          /\ last.pre[last.req.vault] > 0
          /\ lamports[last.req.payer]
                = last.pre[last.req.payer] + last.pre[last.req.vault]

\* C5 witness: a Withdraw that names payer2, and is otherwise valid and
\* unexpired, was refused
C5_Witness ==
    /\ WithdrawPayerMismatch
    /\ WithdrawReachesPayerCheck
    /\ last.req.msg = "exact"
    /\ last.time <= last.req.expiry
    /\ VaultAddress(last.req.signer, last.req.payload[1]) = Key[last.req.vault]
    /\ last.result = "InvalidAccountOwner"

\* every check of a Withdraw before the expiry comparison passes
WithdrawReachesExpiryCheck ==
    /\ WithdrawReachesPayerCheck
    /\ last.req.msg = "exact"
    /\ last.req.claim = last.req.payer

C7_DepositIntoFundedVaultFails ==
    (last.op = "Deposit" /\ last.req.naccounts >= 2
        /\ last.pre[last.req.vault] # 0) =>
        /\ last.result # "Ok"
        /\ Unchanged
        /\ (last.req.naccounts = 3 /\ last.req.signed
               /\ Owner[last.req.vault] = SYSTEM_ID) =>
              last.result = "InvalidAccountData"

\* C7 witness: a Deposit that would be valid for an empty vault was refused
\* because the vault held value
C7_Witness ==
    /\ last.op = "Deposit"
    /\ last.req.naccounts = 3
    /\ last.req.signed
    /\ last.req.payload = "exact"
    /\ Key[last.req.vault] = DepositAddress(last.req.key)
    /\ last.pre[last.req.vault] > 0
    /\ last.pre[last.req.payer] >= last.req.amount
    /\ last.result = "InvalidAccountData"

\* every check of a Withdraw before the signature count passes
WithdrawReachesCountCheck ==
    /\ last.req.naccounts = 4
    /\ last.req.signed
    /\ Owner[last.req.vault] = SYSTEM_ID
    /\ last.pre[last.req.vault] > 0
    /\ last.req.payload # <<>>
    /\ last.req.ixacct = "instructions"

\* C8: a Withdraw whose next instruction is a secp256r1 instruction with a
\* number of signatures other than 1 fails and moves no value, whatever
\* signer, message and expiry it carries; when the checks before the count
\* pass, the error is InvalidInstructionData.
C8_SignatureCountMustBeOne ==
    (last.op = "Withdraw" /\ last.req.sib = "secp256r1" /\ last.req.nsig # 1) =>
        /\ last.result # "Ok"
        /\ Unchanged
        /\ WithdrawReachesCountCheck => last.result = "InvalidInstructionData"

\* C8 witness: a Withdraw with two signatures, each of them valid for the
\* vault, was refused
C8_Witness ==
    /\ last.op = "Withdraw"
    /\ last.req.sib = "secp256r1"
    /\ last.req.nsig = 2
    /\ WithdrawReachesCountCheck
    /\ last.req.msg = "exact"
    /\ last.req.claim = last.req.payer
    /\ last.time <= last.req.expiry
    /\ VaultAddress(last.req.signer, last.req.payload[1]) = Key[last.req.vault]
    /\ last.result = "InvalidInstructionData"

\* a Withdraw (next) right after a successful Deposit (prev): same payer and
\* vault, signed with the key of the Deposit, unexpired, with the bump of the
\* vault address
RoundTrip(prev, next) ==
    /\ prev.op = "Deposit"
    /\ prev.result = "Ok"
    /\ prev.pre[prev.req.vault] = 0
    /\ next.op = "Withdraw"
    /\ next.req.naccounts = 4
    /\ next.req.signed
    /\ next.req.payer = prev.req.payer
    /\ next.req.vault = prev.req.vault
    /\ next.req.ixacct = "instructions"
    /\ next.req.sib = "secp256r1"
    /\ next.req.nsig = 1
    /\ next.req.signer = prev.req.key
    /\ next.req.msg = "exact"
    /\ next.req.claim = next.req.payer
    /\ next.time <= next.req.expiry
    /\ Len(next.req.payload) = 1
    /\ VaultAddress(next.req.signer, next.req.payload[1]) = Key[next.req.vault]

\* C9 as stated: for every key and amount, a successful Deposit into an empty
\* vault followed at once by a Withdraw with a correctly signed, unexpired
\* message naming the same payer succeeds; the vault ends at 0 and the payer
\* at its balance before the Deposit.
C9_RoundTrip ==
    [][RoundTrip(last, last') =>
          /\ last'.result = "Ok"
          /\ lamports'[last'.req.vault] = 0
          /\ lamports'[last'.req.payer] = last.pre[last.req.payer]]_vars

\* C10 as stated: every successful Deposit leaves its vault funded, with a
\* balance above 0 (so that a second Deposit into it must wait for a
\* Withdraw).
C10_DepositLeavesVaultFunded ==
    (last.op = "Deposit" /\ last.result = "Ok") => lamports[last.req.vault] > 0

\* the last step ran an instruction of the program
Executed == last.op \in {"Deposit", "Withdraw", "Unroutable"}

\* C11: every Deposit, Withdraw or unroutable instruction that returns an
\* error leaves every balance as it was before the instruction.
C11_ErrorsMoveNoValue ==
    (Executed /\ last.result # "Ok") => Unchanged

\* C11 witness: a Withdraw from a funded vault passed every check of the
\* program and failed in the transfer itself, its bump not being the vault's
C11_Witness ==
    /\ last.op = "Withdraw"
    /\ WithdrawReachesExpiryCheck
    /\ last.time <= last.req.expiry
    /\ last.result = "PrivilegeEscalation"
    /\ Unchanged

\* the last instruction was a Deposit with a payload that is not 41 bytes long
DepositBadLength == last.op = "Deposit" /\ last.req.payload # "exact"

\* C12 as stated: a Deposit whose payload is not 41 bytes long fails with
\* InvalidInstructionData, also when its accounts are wrong in number, the
\* payer did not sign, or the vault is not system-owned or not empty.
C12_Original == DepositBadLength => last.result = "InvalidInstructionData"

\* C12 as amended: a Deposit whose payload is not 41 bytes long fails and
\* moves no value; the account checks are decided first, so the error is
\* InvalidInstructionData when they pass, and theirs when one of them fails.
C12_BadLengthDepositFails ==
    DepositBadLength =>
        /\ last.result # "Ok"
        /\ Unchanged
        /\ DepositAccountsPass => last.result = "InvalidInstructionData"
        /\ last.req.naccounts # 3 => last.result = "NotEnoughAccountKeys"
        /\ (last.req.naccounts = 3 /\ ~last.req.signed) =>
              last.result = "InvalidAccountOwner"

\* C12 witness: a 42-byte payload, whose first 41 bytes are a valid Deposit
\* for the accounts it came with, was refused
C12_Witness ==
    /\ DepositBadLength
    /\ last.req.payload = "long"
    /\ DepositAccountsPass
    /\ Key[last.req.vault] = DepositAddress(last.req.key)
    /\ last.pre[last.req.payer] >= last.req.amount
    /\ last.result = "InvalidInstructionData"

\* the last instruction came with a number of accounts that its operation
\* does not take (an unroutable one: that neither operation takes)
WrongAccountCount ==
    \/ last.op = "Deposit" /\ last.req.naccounts # 3
    \/ last.op = "Withdraw" /\ last.req.naccounts # 4
    \/ last.op = "Unroutable" /\ last.req.naccounts \notin {3, 4}

\* C13 as stated: an instruction with the wrong number of accounts fails with
\* NotEnoughAccountKeys, which is decided before every other check, the
\* rejection of the discriminator included.
C13_Original == WrongAccountCount => last.result = "NotEnoughAccountKeys"

\* C13 as amended: a Deposit with other than 3 accounts and a Withdraw with
\* other than 4 fail with NotEnoughAccountKeys and move no value, whatever
\* signer flag, owner, balance and payload; the discriminator is decided
\* before: an instruction that routes nowhere fails with InvalidAccountData
\* whatever the number of its accounts.
C13_AccountCountDecidedAfterRouting ==
    /\ (WrongAccountCount /\ last.op \in {"Deposit", "Withdraw"}) =>
          (last.result = "NotEnoughAccountKeys" /\ Unchanged)
    /\ (WrongAccountCount /\ last.op = "Unroutable") =>
          (last.result = "InvalidAccountData" /\ Unchanged)

\* C13 witness: a Withdraw with five accounts, the first four of them and
\* everything else valid, was refused
C13_Witness ==
    /\ last.op = "Withdraw"
    /\ last.req.naccounts = 5
    /\ last.req.signed
    /\ last.pre[last.req.vault] > 0
    /\ Len(last.req.payload) = 1
    /\ last.req.ixacct = "instructions"
    /\ last.req.sib = "secp256r1"
    /\ last.req.nsig = 1
    /\ last.req.msg = "exact"
    /\ last.req.claim = last.req.payer
    /\ last.time <= last.req.expiry
    /\ VaultAddress(last.req.signer, last.req.payload[1]) = Key[last.req.vault]
    /\ last.result = "NotEnoughAccountKeys"

\* C14 as stated: an instruction whose first byte is neither 0 nor 1, and an
\* instruction without bytes, fails with InvalidInstructionData and changes
\* nothing.
C14_Original ==
    last.op = "Unroutable" => (last.result = "InvalidInstructionData" /\ Unchanged)

\* C14 as amended: an instruction whose first byte is neither 0 nor 1, and an
\* instruction without bytes, fails with InvalidAccountData and changes
\* nothing.
C14_UnroutableFails ==
    last.op = "Unroutable" => (last.result = "InvalidAccountData" /\ Unchanged)

\* C14 witness: an instruction without bytes was refused
C14_Witness ==
    /\ last.op = "Unroutable"
    /\ last.req.data = <<>>
    /\ last.result = "InvalidAccountData"

\* C15: an instruction with an unknown first byte fails with
\* InvalidAccountData whatever follows the byte and whatever accounts come
\* with it, and changes nothing; no instruction but one of byte 0 takes value
\* from a payer into a vault, and none but one of byte 1 takes value from a
\* vault to a payer.
C15_UnknownDiscriminatorNeverDispatches ==
    /\ (last.op = "Unroutable" /\ last.req.data # <<>>) =>
          /\ Head(last.req.data) \notin {Deposit_DISCRIMINATOR, Withdraw_DISCRIMINATOR}
          /\ last.result = "InvalidAccountData"
          /\ Unchanged
    /\ (last.op = "Deposit" /\ lamports # last.pre) =>
          /\ Head(DepositTxs[last.req].data) = Deposit_DISCRIMINATOR
          /\ lamports[last.req.payer] < last.pre[last.req.payer]
          /\ lamports[last.req.vault] > last.pre[last.req.vault]
    /\ (last.op = "Withdraw" /\ lamports # last.pre) =>
          /\ Head(WithdrawTxs[last.req].data) = Withdraw_DISCRIMINATOR
          /\ lamports[last.req.vault] < last.pre[last.req.vault]
          /\ lamports[last.req.payer] > last.pre[last.req.payer]

\* C15 witness: byte 2 followed by a payload and accounts that make a valid
\* Deposit under byte 0 was refused
C15_Witness ==
    /\ last.op = "Unroutable"
    /\ last.req.data = <<2>> \o KeyA \o to_le_bytes(1)
    /\ last.req.naccounts = 3
    /\ last.pre["vault1"] = 0
    /\ last.pre["payer1"] >= 1
    /\ last.result = "InvalidAccountData"

\* the account checks of a Withdraw pass
WithdrawAccountsPass ==
    /\ last.req.naccounts = 4
    /\ last.req.signed
    /\ Owner[last.req.vault] = SYSTEM_ID
    /\ last.pre[last.req.vault] > 0

\* C16 as stated: a Withdraw whose payload is not exactly one byte long (no
\* byte, or two and more) is rejected and moves no value, with
\* InvalidInstructionData when its accounts are in order.
C16_WithdrawPayloadOneByte ==
    (last.op = "Withdraw" /\ Len(last.req.payload) # 1) =>
        /\ last.result # "Ok"
        /\ Unchanged
        /\ WithdrawAccountsPass => last.result = "InvalidInstructionData"

\* the last instruction was a Withdraw on an account that held nothing
WithdrawFromEmpty ==
    /\ last.op = "Withdraw"
    /\ last.req.naccounts >= 2
    /\ last.pre[last.req.vault] = 0

\* what C17 says of a Withdraw (req, with its result) on an emptied vault
RefusedAsEmpty(req, result) ==
    /\ result # "Ok"
    /\ (req.naccounts = 4 /\ req.signed /\ Owner[req.vault] = SYSTEM_ID) =>
          result = "InvalidAccountData"

\* a Withdraw (next) on the vault that the last instruction before it (prev),
\* a successful Withdraw, has emptied
WithdrawAgain(prev, next) ==
    /\ prev.op = "Withdraw"
    /\ prev.result = "Ok"
    /\ next # prev
    /\ next.op = "Withdraw"
    /\ next.req.naccounts >= 2
    /\ next.req.vault = prev.req.vault

\* C17: a Withdraw on a vault that holds nothing, as after a successful
\* Withdraw and before value is transferred into it again, fails and moves no
\* value, with InvalidAccountData when it has four accounts, a signing payer
\* and a system-owned vault: whatever next instruction, signed payer, expiry
\* and clock, and so also when it repeats the Withdraw that emptied the vault.
C17_DrainedVaultRefusesWithdraw ==
    /\ [](WithdrawFromEmpty => (RefusedAsEmpty(last.req, last.result) /\ Unchanged))
    /\ [][WithdrawAgain(last, last') =>
             (RefusedAsEmpty(last'.req, last'.result) /\ lamports' = lamports)]_vars

\* C17 witness: vault1b, which loses its lamport only to a successful
\* Withdraw, was asked again with a signature still valid for it
C17_Witness ==
    /\ WithdrawFromEmpty
    /\ last.req.vault = "vault1b"
    /\ last.req.naccounts = 4
    /\ last.req.signed
    /\ last.req.ixacct = "instructions"
    /\ last.req.sib = "secp256r1"
    /\ last.req.nsig = 1
    /\ last.req.msg = "exact"
    /\ last.req.claim = last.req.payer
    /\ last.time <= last.req.expiry
    /\ Len(last.req.payload) = 1
    /\ VaultAddress(last.req.signer, last.req.payload[1]) = Key[last.req.vault]
    /\ last.result = "InvalidAccountData"

\* the last instruction was a Withdraw that succeeded
WithdrawSucceeded == last.op = "Withdraw" /\ last.result = "Ok"

\* C18: a Withdraw succeeds only at a time now <= expiry, the expiry read as
\* a signed number (so never with a negative expiry); the clock does not go
\* back, so once it has passed an expiry E no step is a successful Withdraw
\* whose signature record carries E, whatever vault, payer and bump.
C18_ExpiredStaysExpired ==
    /\ [](WithdrawSucceeded =>
             (last.req.msg = "exact" /\ last.time <= last.req.expiry
                 /\ last.req.expiry >= 0))
    /\ [][\A E \in Expiries :
             now > E =>
                /\ now' > E
                /\ ~(last' # last /\ last'.op = "Withdraw" /\ last'.result = "Ok"
                        /\ last'.req.expiry = E)]_vars

\* C18 witness: a Withdraw with a negative expiry, valid in everything else,
\* was refused at the last clock value
C18_Witness ==
    /\ last.op = "Withdraw"
    /\ WithdrawReachesExpiryCheck
    /\ last.req.expiry < 0
    /\ last.time = MaxTime
    /\ VaultAddress(last.req.signer, last.req.payload[1]) = Key[last.req.vault]
    /\ last.result = "InvalidInstructionData"

\* the sum of the balances of a set of accounts
RECURSIVE Total(_, _)
Total(lam, accts) ==
    IF accts = {} THEN 0
    ELSE LET a == CHOOSE x \in accts : TRUE
         IN  lam[a] + Total(lam, accts \ {a})

\* C19: the balances of all payers and vaults add up to the same sum before
\* and after every instruction, and so to the sum they started with; a
\* successful Deposit or Withdraw takes from one of its two accounts what it
\* gives the other.
C19_ValueConserved ==
    /\ Total(lamports, Wallets \cup Vaults) = Total(last.pre, Wallets \cup Vaults)
    /\ Total(lamports, Wallets \cup Vaults) = Total(InitBalance, Wallets \cup Vaults)
    /\ (last.op \in {"Deposit", "Withdraw"} /\ last.result = "Ok") =>
          lamports[last.req.payer] - last.pre[last.req.payer]
             = last.pre[last.req.vault] - lamports[last.req.vault]

\* C19 witness: payer2's lamport has gone through a vault to payer1
C19_Witness ==
    /\ WithdrawSucceeded
    /\ lamports["payer2"] = 0
    /\ lamports["payer1"] > InitBalance["payer1"]
    /\ lamports[last.req.vault] = 0

\* C20: a Deposit or Withdraw changes no balance but those of the accounts it
\* was given as payer and vault: not of another vault or payer, nor of the
\* trailing account or the instructions account.
C20_OnlyPayerAndVaultChange ==
    last.op \in {"Deposit", "Withdraw"} =>
        \A a \in Accounts :
           lamports[a] # last.pre[a] =>
              /\ last.req.naccounts >= 2
              /\ a \in {last.req.payer, last.req.vault}

\* C20 witness: a Withdraw drained KeyB's vault while KeyA's vault and payer2
\* held value, and left both as they were
C20_Witness ==
    /\ WithdrawSucceeded
    /\ last.req.vault = "vault2"
    /\ lamports["vault2"] < last.pre["vault2"]
    /\ last.pre["vault1"] > 0
    /\ lamports["vault1"] = last.pre["vault1"]
    /\ last.pre["payer2"] > 0
    /\ lamports["payer2"] = last.pre["payer2"]
    /\ lamports["instructions"] = last.pre["instructions"]

=============================================================================
